---- MODULE Spec2Model ----
(***************************************************************************)
(* guck: the daemon lifecycle orchestrator (src/src/daemon.rs and the      *)
(* daemon commands of src/src/main.rs, unix build) and the review-state    *)
(* store (src/src/state.rs) as served by a daemon (src/src/server.rs).     *)
(*                                                                         *)
(* Atomic steps are the system calls that touch shared state: one read or  *)
(* one write of an artifact, one kill(2), one fork, one bind.  Every CLI   *)
(* invocation is a short-lived process running in a slot; a daemon is a    *)
(* process of the process table.                                           *)
(***************************************************************************)
EXTENDS Integers, Sequences, FiniteSets, TLC

\* ------------------------------------------------------------------ bounds
\* CLI invocations that may run at the same time.
NumSlots == 2
\* Daemon processes that are ever spawned (process ids 1..MaxPid, never reused).
MaxPid == 2
\* CLI invocations that are ever run.
MaxInvocations == 3
\* Width of the port range of the model; the code scans 1000 ports.
PortCount == 2
\* Comments a store ever holds under its repository.
MaxComments == 2
\* HTTP requests one daemon serves at the same time (one thread each).
MaxRequests == 2

\* --------------------------------------------------------------- constants
\* First port of the scanned range.
PortBase == 3000

Slots == 1..NumSlots
Pids == 1..MaxPid
Ports == PortBase..(PortBase + PortCount - 1)
Repos == {"/tmp/r", "/tmp/s"}
\* The users that run `daemon start` (root: under sudo, with the same state
\* directory); every other command is run by the ordinary user.
Users == {"user", "root"}
Callers == {"user"}
BaseBranches == {"main"}
Files == {"a.txt"}
\* What git reports as HEAD when a request arrives: <<branch, commit>>.
Heads == {<<"main", "abc123">>, <<"main", "def456">>}
\* The paths of the requests to the store, the payloads of the requests that
\* add a comment (line_number is an Option), and the seconds SystemTime::now()
\* reports (in no order: the clock may stand still or go back).
FilePaths == {"a.txt", "b.txt"}
AddCommentRequests ==
    {[file_path |-> "a.txt", line_number |-> <<>>, text |-> "fix"],
     [file_path |-> "b.txt", line_number |-> <<7>>, text |-> "nit"]}
Timestamps == {5, 11}

\* ------------------------------------------------------------ data model
\* HashMap<K, V> is a function whose DOMAIN is the key set.
EmptyMap == <<>>

MapInsert(m, k, v) == [x \in (DOMAIN m) \cup {k} |-> IF x = k THEN v ELSE m[x]]

MapRemove(m, k) == [x \in (DOMAIN m) \ {k} |-> m[x]]

\* Option<T> is a sequence of length at most one.
None == <<>>

Some(v) == <<v>>

MapGet(m, k) == IF k \in DOMAIN m THEN Some(m[k]) ELSE None

DaemonInfo(pid, port, repo_path, base_branch) ==
    [pid |-> pid, port |-> port, repo_path |-> repo_path, base_branch |-> base_branch]

\* DaemonRegistry::default()
DefaultRegistry == EmptyMap

\* An artifact on disk: absent until its first write.
AbsentFile == [exists |-> FALSE, contents |-> EmptyMap]

FileWith(contents) == [exists |-> TRUE, contents |-> contents]

\* ViewedState::default()
DefaultViewedState == EmptyMap

\* RepoState::default()
DefaultRepoState == [viewed_files |-> <<>>, comments |-> <<>>]

VARIABLES
    registry_file,  \* the artifact daemon-registry.json
    state_file,     \* the artifact viewed.json
    proc,           \* the process table: the daemon processes
    next_pid,       \* the next process id the OS hands out
    cli,            \* the CLI invocation running in each slot
    invocations,    \* the number of CLI invocations run so far
    started         \* history: per repository, the entry a start registered
                    \* and no stop or crash has ended since

vars == <<registry_file, state_file, proc, next_pid, cli, invocations, started>>

\* ---------------------------------------------------------- registry store
LoadRegistry(file) == IF file.exists THEN file.contents ELSE DefaultRegistry

SaveRegistry(registry) == FileWith(registry)

UsedPorts(registry) == {registry[k].port : k \in DOMAIN registry}

RECURSIVE ScanPorts(_, _)
ScanPorts(port, used_ports) ==
    IF port >= PortBase + PortCount THEN None
    ELSE IF port \notin used_ports THEN Some(port)
    ELSE ScanPorts(port + 1, used_ports)

\* Mutant: a full range yields its first port again instead of the error.
FindAvailablePortWraps(file) ==
    IF ScanPorts(PortBase, UsedPorts(LoadRegistry(file))) = None
    THEN Some(PortBase)
    ELSE ScanPorts(PortBase, UsedPorts(LoadRegistry(file)))

\* Mutant: the scan starts one port too high.
FindAvailablePortOffByOne(file) == ScanPorts(PortBase + 1, UsedPorts(LoadRegistry(file)))

FindAvailablePort(file) == ScanPorts(PortBase, UsedPorts(LoadRegistry(file)))

GetDaemonForRepo(file, repo_path) == MapGet(LoadRegistry(file), repo_path)

RegisterDaemon(registry, info) == MapInsert(registry, info.repo_path, info)

UnregisterDaemon(registry, repo_path) == MapRemove(registry, repo_path)

\* ------------------------------------------------------------- processes
\* A request thread of a daemon that serves nothing (yet).
IdleRequest ==
    [pc |-> "idle", op |-> "", head |-> <<>>, file_path |-> "", line_number |-> None,
     text |-> "", comment_id |-> <<>>, before |-> EmptyMap, local |-> FALSE]

\* mutex: the request thread that holds the lock of the store, 0 for none.
NoProc ==
    [alive |-> FALSE, sigterm |-> FALSE, pc |-> "none", repo_path |-> "",
     port |-> 0, base_branch |-> "", uid |-> "", registry |-> EmptyMap,
     state |-> EmptyMap, mutex |-> 0, requests |-> [q \in 1..MaxRequests |-> IdleRequest]]

Exists(pid) == pid \in Pids /\ proc[pid].alive

\* kill(2) by a process of user uid.
KillResult(pid, uid) ==
    IF ~Exists(pid) THEN "ESRCH"
    ELSE IF uid # "root" /\ proc[pid].uid # uid THEN "EPERM"
    ELSE "OK"

\* The process table after kill(pid, sig) by uid: SIGTERM stays pending until
\* it is delivered; the null signal only tests for existence.
Kill(pid, sig, uid) ==
    IF KillResult(pid, uid) = "OK" /\ sig = "SIGTERM"
    THEN [proc EXCEPT ![pid].sigterm = TRUE]
    ELSE proc

\* The signal is_daemon_running probes with.
ProbeSignal == "SIGTERM"

\* Mutant: the result of the probe is ignored.
IsDaemonRunningAlways(pid, uid) == TRUE

IsDaemonRunning(pid, uid) == KillResult(pid, uid) = "OK"

ProcAfterProbe(pid, uid) == Kill(pid, ProbeSignal, uid)

\* stop_daemon: Ok(()) iff the kill succeeded.
StopDaemonOk(pid, uid) == KillResult(pid, uid) = "OK"

ProcAfterStop(pid, uid) == Kill(pid, "SIGTERM", uid)

\* ------------------------------------------------------- review-state store
\* Mutant: the commit is left out of the key.
ScopeIgnoresCommit(repo_path, branch, commit) == <<repo_path, branch>>

Scope(repo_path, branch, commit) == <<repo_path, branch, commit>>

\* The branch and commit git reports for a repository (its HEAD).
CurrentBranch(repo_path) == "main"

CurrentCommit(repo_path) == "abc123"

\* StateManager::new: the state read from the artifact.
LoadState(file) == IF file.exists THEN file.contents ELSE DefaultViewedState

SeqContains(s, x) == \E n \in 1..Len(s) : s[n] = x

IsFileViewed(state, repo_path, branch, commit, file_path) ==
    LET key == Scope(repo_path, branch, commit) IN
    IF key \in DOMAIN state THEN SeqContains(state[key].viewed_files, file_path)
    ELSE FALSE

\* Mutant: the path is pushed without the contains check.
MarkFileViewedAlways(state, repo_path, branch, commit, file_path) ==
    LET key == Scope(repo_path, branch, commit)
        repo_state == IF key \in DOMAIN state THEN state[key] ELSE DefaultRepoState
    IN MapInsert(state, key, [repo_state EXCEPT !.viewed_files = Append(@, file_path)])

\* Mutant: a scope that does not exist yet is not created.
MarkFileViewedExistingOnly(state, repo_path, branch, commit, file_path) ==
    LET key == Scope(repo_path, branch, commit) IN
    IF key \in DOMAIN state /\ ~SeqContains(state[key].viewed_files, file_path)
    THEN [state EXCEPT ![key].viewed_files = Append(@, file_path)]
    ELSE state

MarkFileViewed(state, repo_path, branch, commit, file_path) ==
    LET key == Scope(repo_path, branch, commit)
        repo_state == IF key \in DOMAIN state THEN state[key] ELSE DefaultRepoState
        marked == IF SeqContains(repo_state.viewed_files, file_path)
                  THEN repo_state
                  ELSE [repo_state EXCEPT !.viewed_files = Append(@, file_path)]
    IN MapInsert(state, key, marked)

\* Vec::retain(|x| x != v)
RECURSIVE Retain(_, _)
Retain(s, v) ==
    IF s = <<>> THEN <<>>
    ELSE IF Head(s) = v THEN Retain(Tail(s), v)
    ELSE <<Head(s)>> \o Retain(Tail(s), v)

UnmarkFileViewed(state, repo_path, branch, commit, file_path) ==
    LET key == Scope(repo_path, branch, commit) IN
    IF key \in DOMAIN state
    THEN [state EXCEPT ![key].viewed_files = Retain(@, file_path)]
    ELSE state

\* format!("{}", n) of an unsigned integer: its decimal digits.
RECURSIVE Digits(_)
Digits(n) ==
    LET digit == <<"0", "1", "2", "3", "4", "5", "6", "7", "8", "9">>[(n % 10) + 1] IN
    IF n < 10 THEN <<digit>> ELSE Digits(n \div 10) \o <<digit>>

\* Mutant: the id is the timestamp alone.
CommentIdOfTimestamp(timestamp, len) == Digits(timestamp)

\* format!("{}-{}", timestamp, repo_state.comments.len())
CommentId(timestamp, len) == Digits(timestamp) \o <<"-">> \o Digits(len)

Comment(id, file_path, line_number, text, timestamp, branch, commit, resolved) ==
    [id |-> id, file_path |-> file_path, line_number |-> line_number, text |-> text,
     timestamp |-> timestamp, branch |-> branch, commit |-> commit, resolved |-> resolved]

\* Mutant: the comment is put in front of the list.
AddCommentInFront(state, repo_path, branch, commit, file_path, line_number, text, timestamp) ==
    LET key == Scope(repo_path, branch, commit)
        repo_state == IF key \in DOMAIN state THEN state[key] ELSE DefaultRepoState
        comment == Comment(CommentId(timestamp, Len(repo_state.comments)), file_path,
                           line_number, text, timestamp, branch, commit, FALSE)
    IN [state |-> MapInsert(state, key,
                            [repo_state EXCEPT !.comments = <<comment>> \o @]),
        comment |-> comment]

\* add_comment up to its save: the state with the comment pushed, and the
\* comment it returns.
AddComment(state, repo_path, branch, commit, file_path, line_number, text, timestamp) ==
    LET key == Scope(repo_path, branch, commit)
        repo_state == IF key \in DOMAIN state THEN state[key] ELSE DefaultRepoState
        comment == Comment(CommentId(timestamp, Len(repo_state.comments)), file_path,
                           line_number, text, timestamp, branch, commit, FALSE)
    IN [state |-> MapInsert(state, key,
                            [repo_state EXCEPT !.comments = Append(@, comment)]),
        comment |-> comment]

\* Iterator::filter(|c| c.file_path == fp) collected in order.
RECURSIVE FilterByPath(_, _)
FilterByPath(comments, fp) ==
    IF comments = <<>> THEN <<>>
    ELSE IF Head(comments).file_path = fp
         THEN <<Head(comments)>> \o FilterByPath(Tail(comments), fp)
         ELSE FilterByPath(Tail(comments), fp)

\* Mutant: the filter is ignored.
GetCommentsUnfiltered(state, repo_path, branch, commit, file_path) ==
    LET key == Scope(repo_path, branch, commit) IN
    IF key \notin DOMAIN state THEN <<>> ELSE state[key].comments

\* get_comments: file_path is an Option.
GetComments(state, repo_path, branch, commit, file_path) ==
    LET key == Scope(repo_path, branch, commit) IN
    IF key \notin DOMAIN state THEN <<>>
    ELSE IF file_path # None THEN FilterByPath(state[key].comments, file_path[1])
    ELSE state[key].comments

\* iter_mut().find(|c| c.id == comment_id): the position of the first match, 0
\* when there is none.
FindComment(comments, comment_id) ==
    IF \E n \in 1..Len(comments) : comments[n].id = comment_id
    THEN CHOOSE n \in 1..Len(comments) :
            /\ comments[n].id = comment_id
            /\ \A m \in 1..(n - 1) : comments[m].id # comment_id
    ELSE 0

\* Mutant: the flag of the comment is flipped.
ResolveCommentToggles(state, repo_path, branch, commit, comment_id) ==
    LET key == Scope(repo_path, branch, commit) IN
    IF key \notin DOMAIN state THEN state
    ELSE LET n == FindComment(state[key].comments, comment_id) IN
         IF n = 0 THEN state
         ELSE [state EXCEPT ![key].comments[n].resolved = ~@]

\* Mutant: every comment of the scope is resolved, whatever its id.
ResolveCommentAll(state, repo_path, branch, commit, comment_id) ==
    LET key == Scope(repo_path, branch, commit) IN
    IF key \in DOMAIN state
    THEN [state EXCEPT ![key].comments =
            [n \in 1..Len(@) |-> [@[n] EXCEPT !.resolved = TRUE]]]
    ELSE state

ResolveComment(state, repo_path, branch, commit, comment_id) ==
    LET key == Scope(repo_path, branch, commit) IN
    IF key \notin DOMAIN state THEN state
    ELSE LET n == FindComment(state[key].comments, comment_id) IN
         IF n = 0 THEN state
         ELSE [state EXCEPT ![key].comments[n].resolved = TRUE]

\* ------------------------------------------------------------ invocations
IdleCli ==
    [cmd |-> "idle", pc |-> "idle", uid |-> "", repo_path |-> "", base_branch |-> "",
     info |-> None, registry |-> EmptyMap, daemons |-> EmptyMap, port |-> 0,
     todo |-> {}, to_remove |-> {},
     stale0 |-> {}, wrote |-> FALSE]

NewCli(cmd, pc, uid, repo_path) ==
    [IdleCli EXCEPT !.cmd = cmd, !.pc = pc, !.uid = uid, !.repo_path = repo_path]

\* The repositories whose registry entry names a process that is gone.
StaleRepos(registry) == {k \in DOMAIN registry : ~Exists(registry[k].pid)}

Init ==
    /\ registry_file = AbsentFile
    /\ state_file = AbsentFile
    /\ proc = [p \in Pids |-> NoProc]
    /\ next_pid = 1
    /\ cli = [i \in Slots |-> IdleCli]
    /\ invocations = 0
    /\ started = [r \in Repos |-> None]

\* The update of one slot / one process.
SetCli(i, c) == cli' = [cli EXCEPT ![i] = c]

\* A new invocation takes the first free slot.
Begin(i) ==
    /\ cli[i].pc = "idle"
    /\ \A j \in Slots : j < i => cli[j].pc # "idle"
    /\ invocations < MaxInvocations
    /\ invocations' = invocations + 1

Exit(i) == SetCli(i, IdleCli)

\* History: the start of these repositories is over (a stop, a crash).
ClearStarted(repos) == started' = [r \in Repos |-> IF r \in repos THEN None ELSE started[r]]

ClearStartedOf(pid) ==
    ClearStarted({r \in Repos : started[r] # None /\ started[r][1].pid = pid})

\* ------------------------------------------------- daemon start (launcher)
\* start_daemon, get_daemon_for_repo: `guck daemon start` run in repo_path by uid.
StartLookup(i, repo_path, uid, base_branch) ==
    /\ Begin(i)
    /\ LET info == GetDaemonForRepo(registry_file, repo_path) IN
       SetCli(i, [NewCli("start", IF info = None THEN "s_port" ELSE "s_probe", uid, repo_path)
                    EXCEPT !.base_branch = base_branch,
                           !.info = info,
                           !.stale0 = {repo_path} \cap StaleRepos(LoadRegistry(registry_file))])
    /\ UNCHANGED <<registry_file, state_file, proc, next_pid, started>>

\* start_daemon: the already-running check.
StartProbe(i) ==
    /\ cli[i].pc = "s_probe"
    /\ LET pid == cli[i].info[1].pid IN
       /\ proc' = ProcAfterProbe(pid, cli[i].uid)
       /\ IF IsDaemonRunning(pid, cli[i].uid)
          THEN Exit(i)
          ELSE SetCli(i, [cli[i] EXCEPT !.pc = "unreg_load"])
    /\ UNCHANGED <<invocations, registry_file, state_file, next_pid, started>>

\* unregister_daemon as every command calls it: the load, then the save.
UnregTarget(i) ==
    IF cli[i].cmd = "stop_all" THEN cli[i].info[1].repo_path ELSE cli[i].repo_path

UnregLoad(i) ==
    /\ cli[i].pc = "unreg_load"
    /\ SetCli(i, [cli[i] EXCEPT !.pc = "unreg_save",
                                !.registry = LoadRegistry(registry_file)])
    /\ UNCHANGED <<invocations, registry_file, state_file, proc, next_pid, started>>

\* Where a command goes on after its unregister_daemon returned.
AfterUnreg(i) ==
    IF cli[i].cmd = "start" THEN "s_port"
    ELSE IF cli[i].cmd = "stop" THEN "t_done"
    ELSE IF cli[i].cmd = "stop_all" /\ cli[i].todo # {} THEN "a_probe"
    ELSE "idle"

UnregSave(i) ==
    /\ cli[i].pc = "unreg_save"
    /\ registry_file' = SaveRegistry(UnregisterDaemon(cli[i].registry, UnregTarget(i)))
    /\ IF AfterUnreg(i) = "idle"
       THEN Exit(i)
       ELSE SetCli(i, [cli[i] EXCEPT !.pc = AfterUnreg(i), !.registry = EmptyMap,
                                     !.wrote = TRUE])
    /\ UNCHANGED <<invocations, state_file, proc, next_pid, started>>

\* find_available_port; its error ends the start.
StartFindPort(i) ==
    /\ cli[i].pc = "s_port"
    /\ LET port == FindAvailablePort(registry_file) IN
       IF port = None
       THEN Exit(i)
       ELSE SetCli(i, [cli[i] EXCEPT !.pc = "s_fork", !.port = port[1]])
    /\ UNCHANGED <<invocations, registry_file, state_file, proc, next_pid, started>>

\* The process that goes on as the daemon: the child of daemonize.start(), or
\* the invocation itself when GUCK_DAEMON is set.
SpawnedDaemon(i) ==
    [NoProc EXCEPT !.alive = TRUE, !.pc = "d_reg_load", !.repo_path = cli[i].repo_path,
                   !.port = cli[i].port, !.base_branch = cli[i].base_branch,
                   !.uid = cli[i].uid]

StartFork(i) ==
    /\ cli[i].pc = "s_fork"
    /\ next_pid <= MaxPid
    /\ proc' = [proc EXCEPT ![next_pid] = SpawnedDaemon(i)]
    /\ next_pid' = next_pid + 1
    /\ Exit(i)
    /\ UNCHANGED <<invocations, registry_file, state_file, started>>

\* daemonize.start() returned Err: the message is printed, nothing is registered.
StartForkFails(i) ==
    /\ cli[i].pc = "s_fork"
    /\ Exit(i)
    /\ UNCHANGED <<invocations, registry_file, state_file, proc, next_pid, started>>

\* -------------------------------------------------------------- daemon stop
\* handle_daemon_command, Stop: `guck daemon stop` run in repo_path.
StopLookup(i, repo_path, uid) ==
    /\ Begin(i)
    /\ LET info == GetDaemonForRepo(registry_file, repo_path) IN
       IF info = None
       THEN UNCHANGED cli
       ELSE SetCli(i, [NewCli("stop", "t_kill", uid, repo_path) EXCEPT !.info = info])
    /\ ClearStarted({repo_path})
    /\ UNCHANGED <<registry_file, state_file, proc, next_pid>>

\* stop_daemon(info.pid)?: an error of the kill ends the command.
StopKill(i) ==
    /\ cli[i].pc = "t_kill"
    /\ LET pid == cli[i].info[1].pid IN
       /\ proc' = ProcAfterStop(pid, cli[i].uid)
       /\ IF StopDaemonOk(pid, cli[i].uid)
          THEN SetCli(i, [cli[i] EXCEPT !.pc = "unreg_load"])
          ELSE Exit(i)
    /\ UNCHANGED <<invocations, registry_file, state_file, next_pid, started>>

\* The message "Stopped daemon for ..." that ends a successful stop.
StopDone(i) ==
    /\ cli[i].pc = "t_done"
    /\ Exit(i)
    /\ UNCHANGED <<invocations, registry_file, state_file, proc, next_pid, started>>

\* ---------------------------------------------------------- daemon stop-all
\* handle_daemon_command, StopAll: list_daemons.
StopAllList(i, uid) ==
    /\ Begin(i)
    /\ LET registry == LoadRegistry(registry_file) IN
       IF DOMAIN registry = {}
       THEN UNCHANGED cli
       ELSE SetCli(i, [NewCli("stop_all", "a_probe", uid, "")
                         EXCEPT !.daemons = registry, !.todo = DOMAIN registry])
    /\ ClearStarted(Repos)
    /\ UNCHANGED <<registry_file, state_file, proc, next_pid>>

\* The loop over the listed daemons, in the order of the list: the probe.
StopAllProbe(i, k) ==
    /\ cli[i].pc = "a_probe"
    /\ k \in cli[i].todo
    /\ LET daemon_info == cli[i].daemons[k]
           todo == cli[i].todo \ {k} IN
       /\ proc' = ProcAfterProbe(daemon_info.pid, cli[i].uid)
       /\ IF IsDaemonRunning(daemon_info.pid, cli[i].uid)
          THEN SetCli(i, [cli[i] EXCEPT !.pc = "a_kill", !.info = Some(daemon_info),
                                        !.todo = todo])
          ELSE IF todo = {} THEN Exit(i)
          ELSE SetCli(i, [cli[i] EXCEPT !.todo = todo])
    /\ UNCHANGED <<invocations, registry_file, state_file, next_pid, started>>

StopAllKill(i) ==
    /\ cli[i].pc = "a_kill"
    /\ LET pid == cli[i].info[1].pid IN
       /\ proc' = ProcAfterStop(pid, cli[i].uid)
       /\ IF StopDaemonOk(pid, cli[i].uid)
          THEN SetCli(i, [cli[i] EXCEPT !.pc = "unreg_load"])
          ELSE Exit(i)
    /\ UNCHANGED <<invocations, registry_file, state_file, next_pid, started>>

\* ------------------------------------------- cleanup, list and open-browser
\* cleanup_stale_daemons, as `daemon cleanup`, `daemon list` and the default
\* command (open_browser) call it first: the load.
CleanupLoad(i, cmd, repo_path, uid) ==
    /\ Begin(i)
    /\ LET registry == LoadRegistry(registry_file) IN
       SetCli(i, [NewCli(cmd, IF DOMAIN registry = {} THEN "c_save" ELSE "c_probe",
                         uid, repo_path)
                    EXCEPT !.registry = registry, !.todo = DOMAIN registry,
                           !.stale0 = StaleRepos(registry)])
    /\ UNCHANGED <<registry_file, state_file, proc, next_pid, started>>

\* The loop over registry.daemons, in the map's order: one probe.
CleanupProbe(i, k) ==
    /\ cli[i].pc = "c_probe"
    /\ k \in cli[i].todo
    /\ LET info == cli[i].registry[k]
           todo == cli[i].todo \ {k} IN
       /\ proc' = ProcAfterProbe(info.pid, cli[i].uid)
       /\ SetCli(i, [cli[i] EXCEPT
              !.todo = todo,
              !.to_remove = IF IsDaemonRunning(info.pid, cli[i].uid) THEN @ ELSE @ \cup {k},
              !.pc = IF todo = {} THEN "c_save" ELSE "c_probe"])
    /\ UNCHANGED <<invocations, registry_file, state_file, next_pid, started>>

\* Mutant: the collected removals are never applied.
RemoveNothing(registry, to_remove) == registry

RECURSIVE RemoveAll(_, _)
RemoveAll(registry, to_remove) ==
    IF to_remove = {} THEN registry
    ELSE LET k == CHOOSE x \in to_remove : TRUE IN
         RemoveAll(MapRemove(registry, k), to_remove \ {k})

\* The removals and the one save_registry that ends cleanup_stale_daemons.
CleanupSave(i) ==
    /\ cli[i].pc = "c_save"
    /\ registry_file' = SaveRegistry(RemoveAll(cli[i].registry, cli[i].to_remove))
    /\ IF cli[i].cmd = "cleanup"
       THEN Exit(i)
       ELSE SetCli(i, [cli[i] EXCEPT !.pc = IF cli[i].cmd = "list" THEN "l_list" ELSE "o_lookup",
                                     !.registry = EmptyMap, !.to_remove = {},
                                     !.wrote = TRUE])
    /\ UNCHANGED <<invocations, state_file, proc, next_pid, started>>

\* handle_daemon_command, List: list_daemons and the printing.
ListDaemons(i) ==
    /\ cli[i].pc = "l_list"
    /\ Exit(i)
    /\ UNCHANGED <<invocations, registry_file, state_file, proc, next_pid, started>>

\* open_browser: get_daemon_for_repo, or the error of a missing daemon.
OpenLookup(i) ==
    /\ cli[i].pc = "o_lookup"
    /\ LET info == GetDaemonForRepo(registry_file, cli[i].repo_path) IN
       IF info = None
       THEN Exit(i)
       ELSE SetCli(i, [cli[i] EXCEPT !.pc = "o_probe", !.info = info])
    /\ UNCHANGED <<invocations, registry_file, state_file, proc, next_pid, started>>

\* open_browser: the verification that the daemon runs, then the browser.
OpenProbe(i) ==
    /\ cli[i].pc = "o_probe"
    /\ LET pid == cli[i].info[1].pid IN
       /\ proc' = ProcAfterProbe(pid, cli[i].uid)
       /\ IF IsDaemonRunning(pid, cli[i].uid)
          THEN Exit(i)
          ELSE SetCli(i, [cli[i] EXCEPT !.pc = "unreg_load"])
    /\ UNCHANGED <<invocations, registry_file, state_file, next_pid, started>>

\* ----------------------------------------------------- the daemon process
Running(pid) == pid \in Pids /\ proc[pid].alive

SetProc(pid, p) == proc' = [proc EXCEPT ![pid] = p]

\* What is left of a process that ended: whether it had registered itself.
Registered(pid) == proc[pid].pc \in {"d_new_state", "d_bind", "serving", "gone_registered"}

Gone(pid) ==
    [proc[pid] EXCEPT !.alive = FALSE, !.sigterm = FALSE, !.state = EmptyMap,
                      !.registry = EmptyMap,
                      !.pc = IF Registered(pid) THEN "gone_registered" ELSE "gone"]

\* Mutant: the entry carries a process id taken before the fork, which is not
\* the daemon's.
LauncherInfo(pid) ==
    DaemonInfo(0, proc[pid].port, proc[pid].repo_path, proc[pid].base_branch)

\* The entry a daemon writes for itself: pid is process::id().
OwnInfo(pid) ==
    DaemonInfo(pid, proc[pid].port, proc[pid].repo_path, proc[pid].base_branch)

\* register_daemon in the daemon: the load, then the save.
DaemonRegLoad(pid) ==
    /\ Running(pid) /\ proc[pid].pc = "d_reg_load"
    /\ SetProc(pid, [proc[pid] EXCEPT !.pc = "d_reg_save",
                                      !.registry = LoadRegistry(registry_file)])
    /\ UNCHANGED <<invocations, registry_file, state_file, next_pid, cli, started>>

DaemonRegSave(pid) ==
    /\ Running(pid) /\ proc[pid].pc = "d_reg_save"
    /\ registry_file' = SaveRegistry(RegisterDaemon(proc[pid].registry, OwnInfo(pid)))
    /\ SetProc(pid, [proc[pid] EXCEPT !.pc = "d_new_state", !.registry = EmptyMap])
    /\ started' = [started EXCEPT ![proc[pid].repo_path] = Some(OwnInfo(pid))]
    /\ UNCHANGED <<invocations, state_file, next_pid, cli>>

\* Mutant: the start of the server initialises the artifact.
DaemonNewStateTruncates(pid) ==
    /\ Running(pid) /\ proc[pid].pc = "d_new_state"
    /\ SetProc(pid, [proc[pid] EXCEPT !.pc = "d_bind", !.state = DefaultViewedState])
    /\ state_file' = FileWith(DefaultViewedState)
    /\ UNCHANGED <<invocations, registry_file, next_pid, cli, started>>

\* server::start: StateManager::new reads the artifact once.
DaemonNewState(pid) ==
    /\ Running(pid) /\ proc[pid].pc = "d_new_state"
    /\ SetProc(pid, [proc[pid] EXCEPT !.pc = "d_bind", !.state = LoadState(state_file)])
    /\ UNCHANGED <<invocations, registry_file, state_file, next_pid, cli, started>>

PortHeld(port) == \E q \in Pids : proc[q].alive /\ proc[q].pc = "serving" /\ proc[q].port = port

\* server::start: TcpListener::bind; a rejected bind ends the process.
DaemonBind(pid) ==
    /\ Running(pid) /\ proc[pid].pc = "d_bind"
    /\ IF PortHeld(proc[pid].port)
       THEN /\ SetProc(pid, Gone(pid))
            /\ ClearStartedOf(pid)
       ELSE /\ SetProc(pid, [proc[pid] EXCEPT !.pc = "serving"])
            /\ UNCHANGED started
    /\ UNCHANGED <<invocations, registry_file, state_file, next_pid, cli>>

\* StateManager::save
SaveState(state) == FileWith(state)

\* The disk refuses a write only while the artifact holds what the store
\* holds: the artifact is never more than one failed write behind.
MayFail(pid) == LoadState(state_file) = proc[pid].state

\* Mutant: the artifact is written before the mutation is applied.
StoreCommitBefore(pid, state, written) ==
    /\ written \/ MayFail(pid)
    /\ SetProc(pid, [proc[pid] EXCEPT !.state = state])
    /\ state_file' = IF written THEN SaveState(proc[pid].state) ELSE state_file

\* The end of every mutating method of the store, `self.save()?`: the state is
\* already changed in memory; the artifact is rewritten when fs::write
\* succeeds and is left as it was when it fails.
StoreCommit(pid, state, written) ==
    /\ written \/ MayFail(pid)
    /\ SetProc(pid, [proc[pid] EXCEPT !.state = state])
    /\ state_file' = IF written THEN SaveState(state) ELSE state_file

\* mark_viewed_handler, under the store's mutex, with git's HEAD at head.
MarkViewedAt(pid, head, file_path, written) ==
    /\ Running(pid) /\ proc[pid].pc = "serving"
    /\ StoreCommit(pid, MarkFileViewed(proc[pid].state, proc[pid].repo_path,
                                       head[1], head[2], file_path), written)
    /\ UNCHANGED <<invocations, registry_file, next_pid, cli, started>>

\* mark_viewed_handler while HEAD stays where it is and the disk takes the write.
MarkViewedHandler(pid, file_path) ==
    MarkViewedAt(pid, <<CurrentBranch(proc[pid].repo_path),
                        CurrentCommit(proc[pid].repo_path)>>, file_path, TRUE)

\* unmark_viewed_handler
UnmarkViewedAt(pid, head, file_path, written) ==
    /\ Running(pid) /\ proc[pid].pc = "serving"
    /\ StoreCommit(pid, UnmarkFileViewed(proc[pid].state, proc[pid].repo_path,
                                         head[1], head[2], file_path), written)
    /\ UNCHANGED <<invocations, registry_file, next_pid, cli, started>>

\* The comments a store holds under one repository.
RECURSIVE CountComments(_, _)
CountComments(state, keys) ==
    IF keys = {} THEN 0
    ELSE LET key == CHOOSE x \in keys : TRUE IN
         Len(state[key].comments) + CountComments(state, keys \ {key})

CommentCount(state, repo_path) ==
    CountComments(state, {key \in DOMAIN state : key[1] = repo_path})

\* add_comment_handler
AddCommentAt(pid, head, file_path, line_number, text, timestamp, written) ==
    /\ Running(pid) /\ proc[pid].pc = "serving"
    /\ CommentCount(proc[pid].state, proc[pid].repo_path) < MaxComments
    /\ StoreCommit(pid, AddComment(proc[pid].state, proc[pid].repo_path, head[1], head[2],
                                   file_path, line_number, text, timestamp).state, written)
    /\ UNCHANGED <<invocations, registry_file, next_pid, cli, started>>

\* resolve_comment_handler
ResolveCommentAt(pid, head, comment_id, written) ==
    /\ Running(pid) /\ proc[pid].pc = "serving"
    /\ StoreCommit(pid, ResolveComment(proc[pid].state, proc[pid].repo_path,
                                       head[1], head[2], comment_id), written)
    /\ UNCHANGED <<invocations, registry_file, next_pid, cli, started>>

\* ------------------------------------------------------------ environment
\* A pending SIGTERM takes effect: the daemon installs no handler.
DeliverSigterm(pid) ==
    /\ Running(pid) /\ proc[pid].sigterm
    /\ SetProc(pid, Gone(pid))
    /\ UNCHANGED <<invocations, registry_file, state_file, next_pid, cli, started>>

\* An external kill or a crash of a daemon process.
Crash(pid) ==
    /\ Running(pid)
    /\ SetProc(pid, Gone(pid))
    /\ ClearStartedOf(pid)
    /\ UNCHANGED <<invocations, registry_file, state_file, next_pid, cli>>

Next ==
    \/ \E i \in Slots, r \in Repos, u \in Users, b \in BaseBranches : StartLookup(i, r, u, b)
    \/ \E i \in Slots :
        \/ StartProbe(i)
        \/ UnregLoad(i)
        \/ UnregSave(i)
        \/ StartFindPort(i)
        \/ StartFork(i)
        \/ StartForkFails(i)
        \/ StopKill(i)
        \/ StopDone(i)
        \/ StopAllKill(i)
        \/ CleanupSave(i)
        \/ ListDaemons(i)
        \/ OpenLookup(i)
        \/ OpenProbe(i)
    \/ \E i \in Slots, r \in Repos, u \in Callers : StopLookup(i, r, u)
    \/ \E i \in Slots, u \in Callers : StopAllList(i, u)
    \/ \E i \in Slots, c \in {"cleanup", "list", "open"}, r \in Repos, u \in Callers :
        CleanupLoad(i, c, IF c = "open" THEN r ELSE "", u)
    \/ \E i \in Slots, k \in Repos : StopAllProbe(i, k) \/ CleanupProbe(i, k)
    \/ \E pid \in Pids :
        \/ DaemonRegLoad(pid)
        \/ DaemonRegSave(pid)
        \/ DaemonNewState(pid)
        \/ DaemonBind(pid)
        \/ DeliverSigterm(pid)
        \/ Crash(pid)
    \/ \E pid \in Pids, f \in Files : MarkViewedHandler(pid, f)

Spec == Init /\ [][Next]_vars

\* ------------------------------------------- one store and its requests
\* The daemon whose store is exercised, as its start left it: registered,
\* serving /tmp/r.
StorePid == 1

StoreInfo == DaemonInfo(StorePid, PortBase, "/tmp/r", "main")

\* What earlier daemons have left in the artifact: a comment under the first
\* HEAD of this repository, and review state of another branch of it and of
\* another repository.
EarlierComment(branch, commit) ==
    Comment(CommentId(11, 0), "a.txt", None, "fix", 11, branch, commit, FALSE)

EarlierState ==
    MapInsert(
        MapInsert(
            MapInsert(DefaultViewedState, Scope("/tmp/s", "main", "abc123"),
                      [viewed_files |-> <<"a.txt">>,
                       comments |-> <<EarlierComment("main", "abc123")>>]),
            Scope("/tmp/r", "topic", "abc123"),
            [viewed_files |-> <<"b.txt">>, comments |-> <<>>]),
        Scope("/tmp/r", "main", "abc123"),
        [viewed_files |-> <<>>,
         comments |-> <<EarlierComment("main", "abc123")>>])

\* The comment ids a resolve request may name: ids the store can hold and ids
\* it cannot.
CommentIds == {CommentId(t, n) : t \in Timestamps, n \in 0..1}

\* StateManager::new at the start of the server, the artifact as earlier
\* daemons left it.
StoreInit ==
    /\ registry_file = FileWith(RegisterDaemon(DefaultRegistry, StoreInfo))
    /\ state_file = FileWith(EarlierState)
    /\ proc = [p \in Pids |->
                IF p = StorePid
                THEN [NoProc EXCEPT !.alive = TRUE, !.pc = "serving",
                                    !.repo_path = StoreInfo.repo_path,
                                    !.port = StoreInfo.port,
                                    !.base_branch = StoreInfo.base_branch,
                                    !.uid = "user",
                                    !.state = LoadState(state_file)]
                ELSE NoProc]
    /\ next_pid = StorePid + 1
    /\ cli = [i \in Slots |-> IdleCli]
    /\ invocations = 1
    /\ started = [r \in Repos |-> IF r = StoreInfo.repo_path THEN Some(StoreInfo) ELSE None]

\* The requests of the browser to one daemon, HEAD moving between them, the
\* disk taking or refusing each write.
StoreNext ==
    \E pid \in Pids, head \in Heads, written \in BOOLEAN :
        \/ \E f \in FilePaths : MarkViewedAt(pid, head, f, written)
        \/ \E f \in FilePaths : UnmarkViewedAt(pid, head, f, written)
        \/ \E a \in AddCommentRequests, t \in Timestamps :
              AddCommentAt(pid, head, a.file_path, a.line_number, a.text, t, written)
        \/ \E id \in CommentIds : ResolveCommentAt(pid, head, id, written)

StoreSpec == StoreInit /\ [][StoreNext]_vars

\* ------------------------------------------------------------- properties
Registry == LoadRegistry(registry_file)

\* Slot i takes a step.
Steps(i) == cli'[i] # cli[i]

Serving(pid) == proc[pid].alive /\ proc[pid].pc = "serving"

\* C1: at most one live daemon per repository: no two live daemon processes
\* serve the same repository.
OneLiveDaemonPerRepo ==
    \A p, q \in Pids :
        (p # q /\ Serving(p) /\ Serving(q)) => proc[p].repo_path # proc[q].repo_path

\* C2: the liveness probe is non-destructive: a step that only probes (the
\* already-running check of start, reap_stale, the check of open-browser)
\* leaves every process as it was, without any pending terminating signal.
ProbeIsNonDestructive ==
    [][\A i \in Slots :
        (Steps(i) /\ cli[i].pc \in {"s_probe", "c_probe", "o_probe"}) => proc' = proc]_vars

\* C3: idempotent start: a `daemon start` that finds the entry registered by an
\* earlier start of the same user, with no stop, stop-all or crash since, gets
\* no further than the already-running check: it removes no entry and goes on
\* to no port allocation and no fork.
IdempotentStart ==
    \A i \in Slots :
        (/\ cli[i].cmd = "start"
         /\ cli[i].info # None
         /\ cli[i].info = started[cli[i].repo_path]
         /\ proc[cli[i].info[1].pid].uid = cli[i].uid)
        => cli[i].pc \notin {"s_port", "s_fork"}

\* C4: allocate_port returns the lowest port of the range that no registry
\* entry records, or fails when every port is recorded; so it never returns
\* the port of an entry that is in the registry.
AllocatePortLowestUnused ==
    LET recorded == {Registry[k].port : k \in DOMAIN Registry}
        port == FindAvailablePort(registry_file)
    IN /\ port = None => Ports \subseteq recorded
       /\ port # None =>
            /\ port[1] \in Ports \ recorded
            /\ \A q \in Ports : q < port[1] => q \in recorded
       /\ \A k \in DOMAIN Registry : port # Some(Registry[k].port)

\* A start was handed the second port while the first one is registered.
AllocatePortWitness ==
    \E i \in Slots :
        /\ cli[i].pc = "s_fork"
        /\ cli[i].port = PortBase + 1
        /\ \E k \in DOMAIN Registry : Registry[k].port = PortBase

\* C5: non-conflicting ports: no two registry entries record the same port.
NoTwoEntriesSamePort ==
    \A k1, k2 \in DOMAIN Registry : k1 # k2 => Registry[k1].port # Registry[k2].port

\* C6: reap_stale removes exactly the entries whose process id fails the probe,
\* leaves the other entries it loaded as they were, and writes the registry
\* once, after every entry was probed.
ReapStaleExact ==
    [][\A i \in Slots :
        /\ (Steps(i) /\ cli[i].pc = "c_probe") =>
              /\ registry_file' = registry_file
              /\ \E k \in cli[i].todo :
                    /\ cli'[i].todo = cli[i].todo \ {k}
                    /\ cli'[i].to_remove \ {k} = cli[i].to_remove
                    /\ k \in cli'[i].to_remove
                         <=> KillResult(cli[i].registry[k].pid, cli[i].uid) # "OK"
        /\ (Steps(i) /\ cli[i].pc = "c_save") =>
              /\ cli[i].todo = {}
              /\ cli'[i].pc \notin {"c_probe", "c_save"}
              /\ registry_file'.exists
              /\ DOMAIN registry_file'.contents = (DOMAIN cli[i].registry) \ cli[i].to_remove
              /\ \A k \in DOMAIN registry_file'.contents :
                    registry_file'.contents[k] = cli[i].registry[k]]_vars

\* A `daemon list` has reaped one entry and kept another.
ReapStaleWitness ==
    \E i \in Slots :
        /\ cli[i].pc = "l_list"
        /\ cli[i].stale0 # {}
        /\ \E k \in DOMAIN Registry : k \notin cli[i].stale0 /\ Exists(Registry[k].pid)
        /\ \A k \in cli[i].stale0 : k \notin DOMAIN Registry

\* C7: stale entries are corrected lazily: the registry write of a list,
\* cleanup or open-browser, and of a start for that repository, leaves no
\* entry that was stale when the invocation began, and none of them ends
\* without that write.
StaleEntriesReaped ==
    [][\A i \in Slots :
        Steps(i) =>
          /\ (cli[i].pc = "c_save" \/ (cli[i].pc = "unreg_save" /\ cli[i].cmd = "start")) =>
                \A r \in cli[i].stale0 : r \notin DOMAIN LoadRegistry(registry_file')
          /\ (cli[i].stale0 # {} /\ cli'[i] = IdleCli) =>
                (cli[i].wrote \/ cli[i].pc = "c_save")]_vars

\* A start has cleared the stale entry of its repository and goes on.
StaleEntriesWitness ==
    \E i \in Slots :
        /\ cli[i].cmd = "start"
        /\ cli[i].pc = "s_port"
        /\ cli[i].stale0 = {cli[i].repo_path}
        /\ cli[i].repo_path \notin DOMAIN Registry

\* C8: a probe failure counts as "not alive" only when the process does not
\* exist: no entry is marked for removal by reap_stale, and no entry is
\* unregistered by start, while its process exists.
ProbeFailureMeansAbsent ==
    \A i \in Slots :
        /\ \A k \in cli[i].to_remove : ~Exists(cli[i].registry[k].pid)
        /\ (cli[i].cmd = "start" /\ cli[i].pc \in {"unreg_load", "unreg_save"})
              => ~Exists(cli[i].info[1].pid)

\* C9: self-registration: every registry entry carries the process id, port,
\* repository and base branch of a daemon process that registered itself; a
\* process that ended before it registered (or a start that failed) has none.
SelfRegistration ==
    \A k \in DOMAIN Registry :
        LET e == Registry[k] IN
        /\ e.pid \in 1..(next_pid - 1)
        /\ e.repo_path = k
        /\ proc[e.pid].repo_path = k
        /\ proc[e.pid].port = e.port
        /\ proc[e.pid].base_branch = e.base_branch
        /\ proc[e.pid].pc \in {"d_new_state", "d_bind", "serving", "gone_registered"}

\* A daemon crashed before it registered and its repository has no entry,
\* while another daemon has registered itself.
SelfRegistrationWitness ==
    /\ \E p \in Pids : proc[p].pc = "gone" /\ proc[p].repo_path \notin DOMAIN Registry
    /\ \E k \in DOMAIN Registry : proc[Registry[k].pid].alive

\* C10: review state outlives the daemon: no step of a start, stop, reap or
\* probe, and no end of a process, changes the review-state artifact; the
\* unregister that ends a `daemon stop` leaves no entry for the repository,
\* and a store loaded from the artifact still reports every viewed file.
ReviewStateOutlivesDaemon ==
    [][/\ state_file' # state_file =>
            /\ cli' = cli
            /\ registry_file' = registry_file
            /\ next_pid' = next_pid
            /\ \A p \in Pids : /\ proc'[p].alive = proc[p].alive
                               /\ proc'[p].pc = proc[p].pc
                               /\ proc'[p].sigterm = proc[p].sigterm
       /\ \A i \in Slots :
            (Steps(i) /\ cli[i].cmd = "stop" /\ cli[i].pc = "unreg_save") =>
                /\ cli[i].repo_path \notin DOMAIN LoadRegistry(registry_file')
                /\ \A r \in Repos, f \in Files :
                      IsFileViewed(LoadState(state_file), r, CurrentBranch(r),
                                   CurrentCommit(r), f)
                      => IsFileViewed(LoadState(state_file'), r, CurrentBranch(r),
                                      CurrentCommit(r), f)]_vars

\* A stop has ended: its repository has no entry, its daemon was signalled,
\* and a freshly loaded store reports the file viewed.
ReviewStateWitness ==
    \E i \in Slots, f \in Files :
        /\ cli[i].pc = "t_done"
        /\ cli[i].repo_path \notin DOMAIN Registry
        /\ ~proc[cli[i].info[1].pid].alive \/ proc[cli[i].info[1].pid].sigterm
        /\ IsFileViewed(LoadState(state_file), cli[i].repo_path,
                        CurrentBranch(cli[i].repo_path),
                        CurrentCommit(cli[i].repo_path), f)

\* ------------------------------- concurrent requests to one daemon's store
\* What the browser asks: the route, and the payload of its request.
Request(op, file_path, line_number, text, comment_id) ==
    [op |-> op, file_path |-> file_path, line_number |-> line_number, text |-> text,
     comment_id |-> comment_id]

BrowserRequests ==
    {Request(op, f, None, "", <<>>) : op \in {"mark", "unmark"}, f \in FilePaths}
    \cup {Request("add", a.file_path, a.line_number, a.text, <<>>) : a \in AddCommentRequests}
    \cup {Request("resolve", "", None, "", id) : id \in CommentIds}

Threads == 1..MaxRequests

SetRequest(pid, q, r) == SetProc(pid, [proc[pid] EXCEPT !.requests[q] = r])

\* A handler starts on a thread of its own: it asks git for HEAD, then waits
\* for the lock of the store.
RequestArrives(pid, q, request, head) ==
    /\ Running(pid) /\ proc[pid].pc = "serving"
    /\ proc[pid].requests[q].pc = "idle"
    /\ \A j \in Threads : j < q => proc[pid].requests[j].pc # "idle"
    /\ SetRequest(pid, q, [IdleRequest EXCEPT !.pc = "lock", !.op = request.op,
                              !.head = head, !.file_path = request.file_path,
                              !.line_number = request.line_number,
                              !.text = request.text,
                              !.comment_id = request.comment_id])
    /\ UNCHANGED <<invocations, registry_file, state_file, next_pid, cli, started>>

\* Mutant: the lock is handed out while another thread holds it.
MutexFreeAlways(pid) == TRUE

\* Mutex::lock returns when no thread holds the lock.
MutexFree(pid) == proc[pid].mutex = 0

\* state.state_manager.lock().unwrap(); before: the store as the handler finds it.
RequestLock(pid, q) ==
    /\ Running(pid) /\ proc[pid].requests[q].pc = "lock"
    /\ MutexFree(pid)
    /\ SetProc(pid, [proc[pid] EXCEPT !.mutex = q,
                                      !.requests[q].pc = "read",
                                      !.requests[q].before = proc[pid].state])
    /\ UNCHANGED <<invocations, registry_file, state_file, next_pid, cli, started>>

\* entry(..).or_insert_with(..) down to the RepoState of the scope.
EnsureScope(state, key) ==
    IF key \in DOMAIN state THEN state ELSE MapInsert(state, key, DefaultRepoState)

\* The first half of a method of the store, up to what it decides from the
\* state it reads: whether the path is there (mark), the comment with its id
\* and timestamp (add), the position of the comment (resolve).
RequestRead(pid, q) ==
    /\ Running(pid) /\ proc[pid].requests[q].pc = "read"
    /\ \E timestamp \in IF proc[pid].requests[q].op = "add" THEN Timestamps ELSE {0} :
       LET r == proc[pid].requests[q]
           key == Scope(proc[pid].repo_path, r.head[1], r.head[2])
           state == IF r.op \in {"mark", "add"}
                    THEN EnsureScope(proc[pid].state, key) ELSE proc[pid].state
           local == IF r.op = "mark" THEN SeqContains(state[key].viewed_files, r.file_path)
                    ELSE IF r.op = "add"
                    THEN Comment(CommentId(timestamp, Len(state[key].comments)), r.file_path,
                                 r.line_number, r.text, timestamp, r.head[1], r.head[2], FALSE)
                    ELSE IF r.op = "resolve" /\ key \in DOMAIN state
                    THEN FindComment(state[key].comments, r.comment_id)
                    ELSE 0
       IN SetProc(pid, [proc[pid] EXCEPT !.state = state,
                                         !.requests[q].pc = "write",
                                         !.requests[q].local = local])
    /\ UNCHANGED <<invocations, registry_file, state_file, next_pid, cli, started>>

\* The second half: the push, the retain, the assignment of the flag.
RequestWrite(pid, q) ==
    /\ Running(pid) /\ proc[pid].requests[q].pc = "write"
    /\ LET r == proc[pid].requests[q]
           key == Scope(proc[pid].repo_path, r.head[1], r.head[2])
           old == proc[pid].state
           state == IF r.op = "mark"
                    THEN (IF r.local THEN old
                          ELSE [old EXCEPT ![key].viewed_files = Append(@, r.file_path)])
                    ELSE IF r.op = "unmark"
                    THEN UnmarkFileViewed(old, proc[pid].repo_path, r.head[1], r.head[2],
                                          r.file_path)
                    ELSE IF r.op = "add"
                    THEN [old EXCEPT ![key].comments = Append(@, r.local)]
                    ELSE IF r.local = 0 THEN old
                    ELSE [old EXCEPT ![key].comments[r.local].resolved = TRUE]
       IN SetProc(pid, [proc[pid] EXCEPT !.state = state, !.requests[q].pc = "save"])
    /\ UNCHANGED <<invocations, registry_file, state_file, next_pid, cli, started>>

\* self.save()? and the return of the handler, which drops the guard.
RequestSave(pid, q, written) ==
    /\ Running(pid) /\ proc[pid].requests[q].pc = "save"
    /\ written \/ MayFail(pid)
    /\ state_file' = IF written THEN SaveState(proc[pid].state) ELSE state_file
    /\ SetProc(pid, [proc[pid] EXCEPT !.mutex = IF @ = q THEN 0 ELSE @,
                                      !.requests[q].pc = "done"])
    /\ UNCHANGED <<invocations, registry_file, next_pid, cli, started>>

\* The method of the store a request calls, as one step on the state it finds.
ApplyRequest(state, repo_path, r) ==
    IF r.op = "mark"
    THEN MarkFileViewed(state, repo_path, r.head[1], r.head[2], r.file_path)
    ELSE IF r.op = "unmark"
    THEN UnmarkFileViewed(state, repo_path, r.head[1], r.head[2], r.file_path)
    ELSE IF r.op = "add"
    THEN AddComment(state, repo_path, r.head[1], r.head[2], r.file_path, r.line_number,
                    r.text, r.local.timestamp).state
    ELSE ResolveComment(state, repo_path, r.head[1], r.head[2], r.comment_id)

RequestNext ==
    \E pid \in Pids, q \in Threads :
        \/ \E request \in BrowserRequests, head \in Heads :
              RequestArrives(pid, q, request, head)
        \/ RequestLock(pid, q)
        \/ RequestRead(pid, q)
        \/ RequestWrite(pid, q)
        \/ \E written \in BOOLEAN : RequestSave(pid, q, written)

RequestSpec == StoreInit /\ [][RequestNext]_vars

\* ------------------------------------------------- properties of the store
\* The store of the serving daemon, and the scopes a query may name.
Store == proc[StorePid].state

StoreRepo == proc[StorePid].repo_path

Branches == {"main", "topic"}

Commits == {"abc123", "def456"}

HeadScope(head) == Scope(StoreRepo, head[1], head[2])

\* What a scope shows to its readers: is_file_viewed of every path, and
\* get_comments without and with a filter.
Observed(state, repo_path, branch, commit) ==
    [viewed |-> {f \in FilePaths : IsFileViewed(state, repo_path, branch, commit, f)},
     comments |-> GetComments(state, repo_path, branch, commit, None),
     filtered |-> [f \in FilePaths |->
                     GetComments(state, repo_path, branch, commit, Some(f))]]

\* C11: read-after-write on viewed flags: right after a successful
\* mark_viewed of a path under a scope is_viewed returns true for it, right
\* after a successful unmark_viewed it returns false, from any store state;
\* is_viewed on an absent scope or an absent path returns false.
ReadAfterWrite ==
    /\ [](\A r \in Repos, b \in Branches, c \in Commits, f \in FilePaths :
            /\ IsFileViewed(Store, r, b, c, f) \in BOOLEAN
            /\ Scope(r, b, c) \notin DOMAIN Store => ~IsFileViewed(Store, r, b, c, f)
            /\ (Scope(r, b, c) \in DOMAIN Store
                /\ ~SeqContains(Store[Scope(r, b, c)].viewed_files, f))
                  => ~IsFileViewed(Store, r, b, c, f))
    /\ [][\A head \in Heads, f \in FilePaths :
            /\ MarkViewedAt(StorePid, head, f, TRUE)
                 => IsFileViewed(Store', StoreRepo, head[1], head[2], f)
            /\ UnmarkViewedAt(StorePid, head, f, TRUE)
                 => ~IsFileViewed(Store', StoreRepo, head[1], head[2], f)]_vars

\* A path was marked and unmarked again under the second HEAD, which holds
\* nothing else, while a path is viewed under the first HEAD.
ReadAfterWriteWitness ==
    /\ HeadScope(<<"main", "def456">>) \in DOMAIN Store
    /\ Store[HeadScope(<<"main", "def456">>)] = DefaultRepoState
    /\ IsFileViewed(Store, StoreRepo, "main", "abc123", "a.txt")
    /\ ~IsFileViewed(Store, StoreRepo, "main", "abc123", "b.txt")

\* C12: idempotent membership: a second mark_viewed (unmark_viewed) of the
\* same path right after a successful one changes neither the store nor the
\* artifact; unmark_viewed of a path that is not viewed, or under a scope that
\* does not exist, leaves the store as it is; and no viewed set ever holds a
\* path twice.
IdempotentMembership ==
    /\ [](\A key \in DOMAIN Store :
            \A n, m \in 1..Len(Store[key].viewed_files) :
                n # m => Store[key].viewed_files[n] # Store[key].viewed_files[m])
    /\ [](\A r \in Repos, b \in Branches, c \in Commits, f \in FilePaths :
            ~IsFileViewed(Store, r, b, c, f) => UnmarkFileViewed(Store, r, b, c, f) = Store)
    /\ [][\A head \in Heads, f \in FilePaths :
            /\ MarkViewedAt(StorePid, head, f, TRUE) =>
                 /\ MarkFileViewed(Store', StoreRepo, head[1], head[2], f) = Store'
                 /\ SaveState(MarkFileViewed(Store', StoreRepo, head[1], head[2], f))
                      = state_file'
            /\ UnmarkViewedAt(StorePid, head, f, TRUE) =>
                 /\ UnmarkFileViewed(Store', StoreRepo, head[1], head[2], f) = Store'
                 /\ SaveState(UnmarkFileViewed(Store', StoreRepo, head[1], head[2], f))
                      = state_file']_vars

\* Both paths are viewed under one scope, the second path first, and the
\* artifact holds the same.
IdempotentMembershipWitness ==
    /\ HeadScope(<<"main", "abc123">>) \in DOMAIN Store
    /\ Store[HeadScope(<<"main", "abc123">>)].viewed_files = <<"b.txt", "a.txt">>
    /\ state_file = SaveState(Store)

\* A request to the store with HEAD at head, whatever it asks and whether or
\* not its write succeeds.
StoreStepAt(head) ==
    \E written \in BOOLEAN :
        \/ \E f \in FilePaths :
              \/ MarkViewedAt(StorePid, head, f, written)
              \/ UnmarkViewedAt(StorePid, head, f, written)
        \/ \E a \in AddCommentRequests, t \in Timestamps :
              AddCommentAt(StorePid, head, a.file_path, a.line_number, a.text, t, written)
        \/ \E id \in CommentIds : ResolveCommentAt(StorePid, head, id, written)

\* C13: scope isolation: a store operation on the scope (repository, branch,
\* commit) of HEAD leaves the viewed set and the comment list of every other
\* scope (another commit, another branch, another repository) as they were,
\* stored and as is_viewed and get_comments return them: what was recorded
\* under one commit is not returned for another and is returned unchanged for
\* its own.
ScopeIsolation ==
    [][\A head \in Heads :
        \/ \A r \in Repos, b \in Branches, c \in Commits :
              <<r, b, c>> # <<StoreRepo, head[1], head[2]>> =>
                  /\ Scope(r, b, c) \in DOMAIN Store' <=> Scope(r, b, c) \in DOMAIN Store
                  /\ Scope(r, b, c) \in DOMAIN Store =>
                        Store'[Scope(r, b, c)] = Store[Scope(r, b, c)]
                  /\ Observed(Store', r, b, c) = Observed(Store, r, b, c)
        \/ ~StoreStepAt(head)]_vars

\* One path is viewed under the first commit only, another path and a comment
\* are recorded under the second commit only, and the review state of the
\* other branch and of the other repository is as it was loaded.
ScopeIsolationWitness ==
    /\ Observed(Store, StoreRepo, "main", "abc123").viewed = {"a.txt"}
    /\ Observed(Store, StoreRepo, "main", "def456").viewed = {"b.txt"}
    /\ Len(Observed(Store, StoreRepo, "main", "def456").comments) = 1
    /\ Observed(Store, StoreRepo, "main", "abc123").comments
          = <<EarlierComment("main", "abc123")>>
    /\ Observed(Store, StoreRepo, "topic", "abc123")
          = Observed(EarlierState, StoreRepo, "topic", "abc123")
    /\ Observed(Store, "/tmp/s", "main", "abc123")
          = Observed(EarlierState, "/tmp/s", "main", "abc123")

\* C14: a successful add_comment appends exactly one comment at the end of
\* the comment list of its scope, with the given path, line number and text,
\* the branch and commit of the scope and resolved = false; the comment it
\* returns is the stored one and get_comments of the scope, without a filter
\* and with the comment's path, includes it; get_comments of an absent scope
\* returns the empty list.
AddCommentAppends ==
    /\ [](\A r \in Repos, b \in Branches, c \in Commits :
            Scope(r, b, c) \notin DOMAIN Store =>
                /\ GetComments(Store, r, b, c, None) = <<>>
                /\ \A f \in FilePaths : GetComments(Store, r, b, c, Some(f)) = <<>>)
    /\ [][\A head \in Heads, a \in AddCommentRequests, t \in Timestamps :
            AddCommentAt(StorePid, head, a.file_path, a.line_number, a.text, t, TRUE) =>
                LET f == a.file_path
                    l == a.line_number
                    x == a.text
                    key == HeadScope(head)
                    before == IF key \in DOMAIN Store THEN Store[key].comments ELSE <<>>
                    after == Store'[key].comments
                    returned == AddComment(Store, StoreRepo, head[1], head[2],
                                           f, l, x, t).comment
                IN /\ Len(after) = Len(before) + 1
                   /\ SubSeq(after, 1, Len(before)) = before
                   /\ after[Len(after)] = returned
                   /\ returned.file_path = f
                   /\ returned.line_number = l
                   /\ returned.text = x
                   /\ returned.timestamp = t
                   /\ returned.branch = head[1]
                   /\ returned.commit = head[2]
                   /\ returned.resolved = FALSE
                   /\ GetComments(Store', StoreRepo, head[1], head[2], None) = after
                   /\ SeqContains(GetComments(Store', StoreRepo, head[1], head[2], Some(f)),
                                  returned)]_vars

\* A comment with a line number was added behind the comment the scope held.
AddCommentAppendsWitness ==
    LET comments == GetComments(Store, StoreRepo, "main", "abc123", None) IN
    /\ Len(comments) = 2
    /\ comments[1] = EarlierComment("main", "abc123")
    /\ comments[2].file_path = "b.txt"
    /\ comments[2].line_number = Some(7)
    /\ ~comments[2].resolved
    /\ state_file = SaveState(Store)

\* C15: resolve_comment changes nothing but the resolved flag of the comment
\* with the given id in the given scope: after a successful call that comment
\* is resolved with its other fields as they were, every other comment and
\* every viewed set is as it was; for a comment that is already resolved, an
\* id the scope does not hold or a scope that does not exist, the store is
\* left as it was.
ResolveChangesOnlyFlag ==
    [][\A head \in Heads, id \in CommentIds :
        ResolveCommentAt(StorePid, head, id, TRUE) =>
            LET key == HeadScope(head) IN
            /\ DOMAIN Store' = DOMAIN Store
            /\ \A k \in DOMAIN Store :
                  /\ Store'[k].viewed_files = Store[k].viewed_files
                  /\ k # key => Store'[k].comments = Store[k].comments
            /\ key \in DOMAIN Store =>
                  /\ Len(Store'[key].comments) = Len(Store[key].comments)
                  /\ \A n \in 1..Len(Store[key].comments) :
                        Store'[key].comments[n] =
                            IF Store[key].comments[n].id = id
                            THEN [Store[key].comments[n] EXCEPT !.resolved = TRUE]
                            ELSE Store[key].comments[n]
            /\ (\/ key \notin DOMAIN Store
                \/ \A n \in 1..Len(Store[key].comments) :
                      Store[key].comments[n].id = id => Store[key].comments[n].resolved)
                  => Store' = Store
            /\ state_file' = SaveState(Store')]_vars

\* The second comment of a scope was resolved by its id; the first one, and
\* the comment with the same id under another repository, are unresolved.
ResolveChangesOnlyFlagWitness ==
    LET comments == GetComments(Store, StoreRepo, "main", "abc123", None) IN
    /\ Len(comments) = 2
    /\ ~comments[1].resolved
    /\ comments[2].resolved
    /\ GetComments(Store, "/tmp/s", "main", "abc123", None)
          = <<EarlierComment("main", "abc123")>>

\* C16: comments are append-only and resolution is monotonic: no store
\* operation, succeeding or failing, removes a scope or a comment or moves a
\* comment (the comment list before the operation is, position by position
\* and id by id, the beginning of the list after it), no field of a comment
\* other than resolved changes, and a resolved comment stays resolved.
CommentsAppendOnly ==
    [][\A k \in DOMAIN Store :
        /\ k \in DOMAIN Store'
        /\ Len(Store'[k].comments) >= Len(Store[k].comments)
        /\ \A n \in 1..Len(Store[k].comments) :
              /\ Store'[k].comments[n].id = Store[k].comments[n].id
              /\ [Store'[k].comments[n] EXCEPT !.resolved = Store[k].comments[n].resolved]
                    = Store[k].comments[n]
              /\ Store[k].comments[n].resolved => Store'[k].comments[n].resolved]_vars

\* The first comment of a scope is resolved and a later comment stands behind
\* it, unresolved.
CommentsAppendOnlyWitness ==
    LET comments == GetComments(Store, StoreRepo, "main", "abc123", None) IN
    /\ Len(comments) = 2
    /\ comments[1].id = EarlierComment("main", "abc123").id
    /\ comments[1].resolved
    /\ ~comments[2].resolved

\* C17: comment ids are unique within a scope: whatever add_comment calls a
\* store has served, several in one second and with the clock standing still
\* or going back included, no two comments of one scope carry the same id
\* "<timestamp>-<index>", in the store and in the artifact.
UniqueCommentIds ==
    \A state \in {Store, LoadState(state_file)} :
        \A k \in DOMAIN state :
            \A n, m \in 1..Len(state[k].comments) :
                n # m => state[k].comments[n].id # state[k].comments[m].id

\* Two comments of one scope were stamped in the same second.
UniqueCommentIdsWitness ==
    LET comments == GetComments(Store, StoreRepo, "main", "abc123", None) IN
    /\ Len(comments) = 2
    /\ comments[1].timestamp = comments[2].timestamp
    /\ comments[1].id = CommentId(11, 0)
    /\ comments[2].id = CommentId(11, 1)

\* C18: get_comments with a path filter returns exactly the comments of the
\* scope whose file_path equals the filter, in the order they were added;
\* without a filter it returns all comments of the scope in that order.
GetCommentsFilters ==
    \A r \in Repos, b \in Branches, c \in Commits :
        LET all == IF Scope(r, b, c) \in DOMAIN Store
                   THEN Store[Scope(r, b, c)].comments ELSE <<>>
        IN /\ GetComments(Store, r, b, c, None) = all
           /\ \A f \in FilePaths \cup {"c.txt"} :
                LET HasPath(comment) == comment.file_path = f IN
                GetComments(Store, r, b, c, Some(f)) = SelectSeq(all, HasPath)

\* A scope holds comments on two paths: each filter returns one of them, no
\* filter returns both.
GetCommentsFiltersWitness ==
    LET all == GetComments(Store, StoreRepo, "main", "abc123", None) IN
    /\ Len(all) = 2
    /\ GetComments(Store, StoreRepo, "main", "abc123", Some("a.txt")) = <<all[1]>>
    /\ GetComments(Store, StoreRepo, "main", "abc123", Some("b.txt")) = <<all[2]>>

\* A request to the store that returns success.
StoreSuccess ==
    \E head \in Heads :
        \/ \E f \in FilePaths :
              \/ MarkViewedAt(StorePid, head, f, TRUE)
              \/ UnmarkViewedAt(StorePid, head, f, TRUE)
        \/ \E a \in AddCommentRequests, t \in Timestamps :
              AddCommentAt(StorePid, head, a.file_path, a.line_number, a.text, t, TRUE)
        \/ \E id \in CommentIds : ResolveCommentAt(StorePid, head, id, TRUE)

\* C19: persist-before-return: when mark_viewed, unmark_viewed, add_comment or
\* resolve_comment returns success, the artifact holds the complete in-memory
\* state of the store with that mutation, so a store loaded from the artifact
\* right after the call reports the mark and returns the comment.
PersistBeforeReturn ==
    [][/\ (state_file' = SaveState(Store') /\ LoadState(state_file') = Store')
            \/ ~StoreSuccess
       /\ \A head \in Heads :
            /\ \A f \in FilePaths :
                  /\ MarkViewedAt(StorePid, head, f, TRUE) =>
                        IsFileViewed(LoadState(state_file'), StoreRepo, head[1], head[2], f)
                  /\ UnmarkViewedAt(StorePid, head, f, TRUE) =>
                        ~IsFileViewed(LoadState(state_file'), StoreRepo, head[1], head[2], f)
            /\ \A a \in AddCommentRequests, t \in Timestamps :
                  AddCommentAt(StorePid, head, a.file_path, a.line_number, a.text, t, TRUE) =>
                     SeqContains(
                        GetComments(LoadState(state_file'), StoreRepo, head[1], head[2], None),
                        AddComment(Store, StoreRepo, head[1], head[2], a.file_path,
                                   a.line_number, a.text, t).comment)]_vars

\* The artifact holds what the store holds: a path viewed under the second
\* commit and the resolved comment of the first.
PersistBeforeReturnWitness ==
    /\ state_file = SaveState(Store)
    /\ IsFileViewed(LoadState(state_file), StoreRepo, "main", "def456", "a.txt")
    /\ Len(GetComments(LoadState(state_file), StoreRepo, "main", "abc123", None)) = 1
    /\ GetComments(LoadState(state_file), StoreRepo, "main", "abc123", None)[1].resolved

\* A request to the store whose write of the artifact fails: it returns the
\* error of save.
StoreFailure ==
    \E head \in Heads :
        \/ \E f \in FilePaths :
              \/ MarkViewedAt(StorePid, head, f, FALSE)
              \/ UnmarkViewedAt(StorePid, head, f, FALSE)
        \/ \E a \in AddCommentRequests, t \in Timestamps :
              AddCommentAt(StorePid, head, a.file_path, a.line_number, a.text, t, FALSE)
        \/ \E id \in CommentIds : ResolveCommentAt(StorePid, head, id, FALSE)

\* C20: a persistence failure commits nothing: when the write of the artifact
\* fails during mark_viewed, unmark_viewed, add_comment or resolve_comment,
\* the store shows afterwards what it showed before the call: is_viewed and
\* get_comments of every scope return what they returned.
FailureCommitsNothing ==
    [][(\A r \in Repos, b \in Branches, c \in Commits :
            Observed(Store', r, b, c) = Observed(Store, r, b, c))
        \/ ~StoreFailure]_vars

\* ------------------------------------ properties of concurrent requests
\* The threads that are inside a method of the store.
InStore(pid) == {q \in Threads : proc[pid].requests[q].pc \in {"read", "write", "save"}}

\* C21: within one daemon the requests are serialized by the mutex, held for
\* the whole operation with its flush: at most one request is inside the
\* store; when a request returns, the store holds exactly what its method
\* makes of the store the request found when it took the lock, and a
\* successful flush has written exactly that; so no update is lost: no path is
\* viewed twice in a scope and no two comments of a scope share an id.
SerializedByMutex ==
    /\ [](/\ Cardinality(InStore(StorePid)) <= 1
          /\ InStore(StorePid) = {q \in Threads : proc[StorePid].mutex = q})
    /\ [][\A q \in Threads :
            (proc[StorePid].requests[q].pc = "save"
             /\ proc'[StorePid].requests[q].pc = "done") =>
                /\ Store' = ApplyRequest(proc[StorePid].requests[q].before, StoreRepo,
                                         proc[StorePid].requests[q])
                /\ state_file' = SaveState(Store') \/ state_file' = state_file]_vars
    /\ [](\A k \in DOMAIN Store :
            /\ \A n, m \in 1..Len(Store[k].viewed_files) :
                  n # m => Store[k].viewed_files[n] # Store[k].viewed_files[m]
            /\ \A n, m \in 1..Len(Store[k].comments) :
                  n # m => Store[k].comments[n].id # Store[k].comments[m].id)

\* Two requests add a comment under the same scope in the same second: the
\* first is about to return, its comment pushed, while the second waits for
\* the lock.
SerializedByMutexWitness ==
    LET r1 == proc[StorePid].requests[1]
        r2 == proc[StorePid].requests[2]
    IN /\ r1.op = "add" /\ r2.op = "add"
       /\ r1.head = r2.head
       /\ r1.pc = "save" /\ r2.pc = "lock"
       /\ r1.local.timestamp = 11
       /\ Len(Store[HeadScope(r1.head)].comments) = Len(r1.before[HeadScope(r1.head)].comments) + 1

\* --------------------------------------- properties of the lifecycle (2)
\* Every port of the range is recorded by some entry of the registry.
PortsExhausted == Ports \subseteq {Registry[k].port : k \in DOMAIN Registry}

\* C22: port exhaustion is fatal to start: when every port of the range is
\* recorded in the registry, find_available_port returns its error and the
\* `daemon start` that called it ends there: no process is spawned, the
\* registry is not written, and the invocation is over (no retry).
PortExhaustionFatal ==
    [][\A i \in Slots :
        (PortsExhausted /\ StartFindPort(i)) =>
            /\ FindAvailablePort(registry_file) = None
            /\ cli'[i] = IdleCli
            /\ proc' = proc /\ next_pid' = next_pid
            /\ registry_file' = registry_file]_vars

\* A start that found no entry for its repository is about to allocate its
\* port, and by now the daemons of other starts have recorded every port.
PortExhaustionWitness ==
    \E i \in Slots :
        /\ cli[i].cmd = "start" /\ cli[i].pc = "s_port"
        /\ PortsExhausted
        /\ cli[i].repo_path \in DOMAIN Registry

\* C23: no review state is lost between the daemons of two repositories that
\* share the artifact: a mutation that one daemon answers with success never
\* erases what the daemon of another repository has written, so a freshly
\* loaded store still reports every file of the other repository viewed.
NoStateLostBetweenDaemons ==
    [][\A pid \in Pids, file_path \in Files :
        MarkViewedHandler(pid, file_path) =>
            \A r \in Repos \ {proc[pid].repo_path}, f \in Files :
                IsFileViewed(LoadState(state_file), r, CurrentBranch(r),
                             CurrentCommit(r), f)
                => IsFileViewed(LoadState(state_file'), r, CurrentBranch(r),
                                CurrentCommit(r), f)]_vars

\* The step is the save of an unregister_daemon of repository r, or of a
\* cleanup_stale_daemons that removes r.
RemovalOf(r) ==
    \E j \in Slots :
        /\ Steps(j)
        /\ \/ cli[j].pc = "unreg_save" /\ UnregTarget(j) = r
           \/ cli[j].pc = "c_save" /\ r \in cli[j].to_remove

\* C24: no registration is lost to a concurrent writer of the registry: while
\* the entry a register_daemon wrote for a repository is what a lookup
\* returns, every step that is not the save of an unregister or of a reap of
\* that repository (the save of a register, an unregister or a reap for
\* another repository, in any interleaving) leaves the lookup returning it.
NoRegistrationLost ==
    [][\A r \in Repos :
        (/\ started[r] # None
         /\ GetDaemonForRepo(registry_file, r) = started[r]
         /\ started'[r] = started[r]
         /\ ~RemovalOf(r))
        => GetDaemonForRepo(registry_file', r) = started[r]]_vars

\* C25: a daemon whose bind is rejected exits without leaving a registry
\* entry: when the process has ended, a lookup of its repository does not
\* return the entry that names it.
RejectedBindLeavesNoEntry ==
    [][\A pid \in Pids :
        (PortHeld(proc[pid].port) /\ DaemonBind(pid)) =>
            /\ ~proc'[pid].alive
            /\ GetDaemonForRepo(registry_file', proc[pid].repo_path) # Some(OwnInfo(pid))]_vars

\* C26: `daemon stop` for a repository that has an entry always ends with the
\* entry removed, also when the recorded process has already exited and the
\* kill fails; and `daemon stop-all` ends with no entry left of the daemons
\* that were registered when it listed them.  Stated on the step that ends
\* the command.
StopRemovesEntry ==
    [][\A i \in Slots :
        /\ (cli[i].cmd = "stop" /\ Steps(i) /\ cli'[i].pc = "idle") =>
              GetDaemonForRepo(registry_file', cli[i].repo_path) # cli[i].info
        /\ (cli[i].cmd = "stop_all" /\ Steps(i) /\ cli'[i].pc = "idle") =>
              \A k \in DOMAIN cli[i].daemons :
                  GetDaemonForRepo(registry_file', k) # Some(cli[i].daemons[k])]_vars

====
